---- MODULE Spec2Model ----
(***************************************************************************)
(* A model of the DB coordinator of internal/leveldb/db.go (the serving    *)
(* routine, the write path, log rotation, background compactions, file     *)
(* collection and Close) and of the range iterator of                      *)
(* internal/iterator/range.go.                                             *)
(*                                                                         *)
(* All items are written to one user key; an item is named by its sequence *)
(* number, so a memtable, a log file and a table are sets of sequences and *)
(* Get returns the newest sequence it finds (0 for NotFound).              *)
(***************************************************************************)
EXTENDS Integers, Sequences, FiniteSets, TLC

(* ---- bounds of the model ---- *)
\* options.WriteBufferSize, in the units of ItemBytes
WriteBufferSize == 8
\* approximate memtable usage of one item
ItemBytes == 9
\* number of requests a batch.Group merges before it keeps one pending
MaxGroup == 1
\* injected I/O failures in one run (log write, log sync, Compact, manifest Log, Open)
MaxFaults == 1
\* number of times PickCompaction picks a seek-triggered compaction
MaxPicks == 1
\* items replayed from the log of a recovered database
MaxRecovered == 1
\* level-0 tables named by the manifest of a directory that Open recovers
MaxListed == 3

\* largest key of the table a range iterator walks
MaxKey == 4
\* the longest wait (ms) after which a compaction may fail once more when
\* the device fails without limit
MaxTimeout == 8000

(* ---- program constants ---- *)
RequestCap == 1024
\* time.Second, in milliseconds
Second == 1000
ResultCap == 16
NextLogCap == 1
L0StopWritesFiles == 12
L0SlowdownFiles == 8
L0CompactionTrigger == 4

Writers == {"w1", "w2"}
Closers == {"c1", "c2"}

\* batch.Count() and opts.Sync of the one Write call each writer makes
Count(w) == IF w = "w1" THEN 2 ELSE 1
SyncOf(w) == w = "w1"

Max(a, b) == IF a >= b THEN a ELSE b
MaxOf(S) == IF S = {} THEN 0 ELSE CHOOSE x \in S : \A y \in S : y <= x

VARIABLES
  db,          \* the DB struct with its version.State and its background goroutines
  fs,          \* the database directory: log files, table files, what is fsynced
  requestc,    \* channel db.requestc
  sv,          \* the locals of serve and its position
  drainer,     \* the drainRequests goroutine runs
  opener,      \* position of the goroutine inside Open
  wpc, replyc, \* position of each Write call, its reply channel
  clpc, closeReply, \* position of each Close call, the reply channel of the sentinel
  rd,          \* the reader (DB.get)
  faults,      \* injected I/O failures so far; negative: failures without limit
  hist,        \* history: what was assigned, appended, applied, acknowledged
  it,          \* a rangeIterator over a sorted key set
  tw,          \* a table.Writer and the file it writes
  fi           \* a version.fileIterator over the files of a level

dbvars == <<db, fs, requestc, sv, drainer, opener, wpc, replyc, clpc, closeReply,
            rd, faults, hist>>
vars == <<dbvars, it, tw, fi>>

(***************************************************************************)
(* Records                                                                 *)
(***************************************************************************)
NoEdit == [logNumber |-> 0, lastSequence |-> 0, nextFileNumber |-> 0,
           deleted |-> {}, add0 |-> {}, addN |-> {}]

\* a background goroutine: compactAndLog ("mem", "lvl"), removeObsoleteFiles
\* ("col") or openNextLog ("nlog")
Job(id, kind, pc, level, edit, src, out, num) ==
  [id |-> id, kind |-> kind, pc |-> pc, level |-> level, edit |-> edit,
   src |-> src, out |-> out, num |-> num, compacted |-> FALSE, smallest |-> 0,
   timeout |-> 0]

\* compactionResult
Result(level, err, edit, aborted) ==
  [level |-> level, err |-> err, edit |-> edit, aborted |-> aborted]

(***************************************************************************)
(* version.State                                                           *)
(***************************************************************************)
Tables(v) == v.l0 \cup v.ln

\* State.Apply: the edit's deletions and additions make the new current
\* version, and the state's scalars are brought up to the edit's.
Apply(s, edit) ==
  [s EXCEPT !.current = [l0 |-> (s.current.l0 \ edit.deleted) \cup edit.add0,
                         ln |-> (s.current.ln \ edit.deleted) \cup edit.addN],
            !.stLogNumber = IF edit.logNumber # 0 THEN edit.logNumber
                            ELSE s.stLogNumber,
            !.lastSequence = Max(s.lastSequence, edit.lastSequence),
            !.nextFileNumber = Max(s.nextFileNumber, edit.nextFileNumber)]

\* State.Log: the edit is appended to the manifest; replaying the manifest
\* yields these tables and this log number.
LogEdit(m, edit) ==
  [l0 |-> (m.l0 \ edit.deleted) \cup edit.add0,
   ln |-> (m.ln \ edit.deleted) \cup edit.addN,
   logNumber |-> IF edit.logNumber # 0 THEN edit.logNumber ELSE m.logNumber]

\* State.PickCompaction: level 0 when it holds L0CompactionTrigger files,
\* else a seek-triggered compaction of a table when `seek` says one is due.
\* All tables hold the one key, so the inputs are all the tables of the
\* level and of the next.
PickCompaction(s, seek) ==
  IF Cardinality(s.current.l0) >= L0CompactionTrigger
    THEN [level |-> 0, inputs |-> Tables(s.current)]
  ELSE IF seek /\ s.picks < MaxPicks /\ Tables(s.current) # {}
    THEN [level |-> IF s.current.l0 # {} THEN 0 ELSE 1,
          inputs |-> Tables(s.current)]
  ELSE [level |-> -1, inputs |-> {}]

(***************************************************************************)
(* DB: the try* starters and the completions                               *)
(***************************************************************************)
tryRemoveObsoleteFiles(s) ==
  IF s.compactionLevel >= 0 \/ s.compactionMemory THEN s
  ELSE [s EXCEPT !.collectionDone = s.nextJob,
                 !.collectionFiles = TRUE,
                 !.bgGroup = @ + 1,
                 !.jobs = @ \cup {Job(s.nextJob, "col", "run", -1, NoEdit, {}, 0,
                                      s.stLogNumber)},
                 !.nextJob = @ + 1]

LevelEditLogNumber(s) == s.logNumber

\* DB.getSmallestSnapshot: the oldest snapshot of the list, the last sequence
\* when the list is empty
getSmallestSnapshot(s) ==
  IF s.snapshots = << >> THEN s.lastSequence ELSE Head(s.snapshots)

tryLevelCompaction(s, seek) ==
  IF s.collectionFiles \/ s.compactionLevel >= 0 \/ s.closing THEN s
  ELSE LET c == PickCompaction(s, seek) IN
    IF c.level < 0 THEN s
    ELSE [s EXCEPT
            !.compactionLevel = c.level,
            !.picks = IF Cardinality(s.current.l0) >= L0CompactionTrigger
                      THEN @ ELSE @ + 1,
            !.bgGroup = @ + 1,
            !.jobs = @ \cup {[Job(s.nextJob, "lvl", "compact", c.level,
                                 [NoEdit EXCEPT !.logNumber = LevelEditLogNumber(s),
                                                !.lastSequence = s.lastSequence,
                                                !.nextFileNumber = s.nextFileNumber],
                                 c.inputs, 0, 0)
                               EXCEPT !.smallest = getSmallestSnapshot(s)]},
            !.nextJob = @ + 1]

tryMemoryCompaction(s) ==
  IF s.imm = 0 \/ s.collectionFiles \/ s.closing THEN s
  ELSE [s EXCEPT
          !.compactionMemory = TRUE,
          !.nextFileNumber = @ + 1,
          !.bgGroup = @ + 1,
          !.jobs = @ \cup {[Job(s.nextJob, "mem", "compact", -1,
                               [NoEdit EXCEPT !.logNumber = s.logNumber,
                                              !.nextFileNumber = s.nextFileNumber + 1,
                                              !.lastSequence = s.lastSequence],
                               s.memtab[s.imm], s.nextFileNumber, 0)
                             EXCEPT !.smallest = getSmallestSnapshot(s)]},
          !.nextJob = @ + 1]

tryOpenNextLog(s) ==
  IF s.imm = 0 /\ s.nextLogNumber = 0
    THEN [s EXCEPT !.nextLogNumber = s.nextFileNumber,
                   !.nextFileNumber = @ + 1,
                   !.bgGroup = @ + 1,
                   !.jobs = @ \cup {Job(s.nextJob, "nlog", "open", -1, NoEdit, {},
                                        0, s.nextFileNumber)},
                   !.nextJob = @ + 1]
  ELSE s

tryStartBackground(s, seek) ==
  tryRemoveObsoleteFiles(tryLevelCompaction(tryMemoryCompaction(s), seek))

\* a completeCompaction that takes the report of a failed attempt for the
\* end of the compaction
completeCompactionEager(s, r, seek) ==
  LET s1 == IF r.level = -1 THEN [s EXCEPT !.compactionMemory = FALSE]
            ELSE [s EXCEPT !.compactionLevel = -1]
      s2 == [s1 EXCEPT !.compactionErr = r.err, !.bgGroup = @ - 1]
      s3 == IF r.level = -1 THEN [s2 EXCEPT !.imm = 0] ELSE s2
  IN IF r.err # "nil" THEN s2
     ELSE tryRemoveObsoleteFiles(tryLevelCompaction(Apply(s3, r.edit), seek))

completeCompaction(s, r, seek) ==
  LET terminal == r.err = "nil" \/ r.aborted
      s1 == IF ~terminal THEN s
            ELSE IF r.level = -1 THEN [s EXCEPT !.compactionMemory = FALSE]
            ELSE [s EXCEPT !.compactionLevel = -1]
      s2 == [s1 EXCEPT !.compactionErr = r.err]
      s3 == IF r.level = -1 THEN [s2 EXCEPT !.imm = 0] ELSE s2
      s4 == IF r.err # "nil" THEN s2
            ELSE tryRemoveObsoleteFiles(tryLevelCompaction(Apply(s3, r.edit), seek))
  IN IF terminal THEN [s4 EXCEPT !.bgGroup = @ - 1] ELSE s4

completeCollectionFiles(s, seek) ==
  tryLevelCompaction(
    tryMemoryCompaction([s EXCEPT !.collectionDone = 0, !.collectionFiles = FALSE]),
    seek)

openLog(s, number) ==
  LET s1 == [s EXCEPT !.log = TRUE, !.logErr = "nil", !.logNumber = number]
  IN IF s1.memtab[s1.mem] # {}
       THEN tryMemoryCompaction([s1 EXCEPT !.imm = s1.mem,
                                           !.mem = Len(s1.memtab) + 1,
                                           !.memtab = Append(@, {})])
     ELSE s1

closeLog(s, err) == [s EXCEPT !.log = FALSE, !.logErr = err, !.logNumber = 0]

\* DB.throttle: the slowdown timer, the pause flag and the DB after the
\* tryOpenNextLog it may call
throttle(s) ==
  LET bufSize == WriteBufferSize
      bufUsage == ItemBytes * Cardinality(s.memtab[s.mem])
      level0NumFiles == Cardinality(s.current.l0)
      no == [db |-> s, slowdown |-> FALSE, pause |-> FALSE]
  IN IF ~s.log THEN no
     ELSE IF s.compactionErr # "nil" THEN no
     ELSE IF bufUsage <= bufSize THEN no
     ELSE IF level0NumFiles >= L0StopWritesFiles THEN [no EXCEPT !.pause = TRUE]
     ELSE LET o == [no EXCEPT !.db = tryOpenNextLog(s)] IN
       IF bufUsage >= bufSize + (bufSize \div 4) THEN [o EXCEPT !.pause = TRUE]
       ELSE IF level0NumFiles >= L0SlowdownFiles THEN [o EXCEPT !.slowdown = TRUE]
       ELSE o

(***************************************************************************)
(* batch.Group: the requests merged into one batch, and the one kept       *)
(* pending when the group is full                                          *)
(***************************************************************************)
Request(kind, who) == [kind |-> kind, who |-> who]

Empty(g) == g.writes = <<>>
HasPending(g) == g.pending # <<>>
Push(g, req) ==
  IF Len(g.writes) < MaxGroup THEN [g EXCEPT !.writes = Append(@, req)]
  ELSE [g EXCEPT !.pending = <<req>>]
Rewind(g) == [g EXCEPT !.writes = g.pending, !.pending = <<>>]
GroupWriters(g) == {g.writes[i].who : i \in 1..Len(g.writes)}
RECURSIVE SumCount(_)
SumCount(ws) == IF ws = {} THEN 0
                ELSE LET w == CHOOSE x \in ws : TRUE IN Count(w) + SumCount(ws \ {w})
GroupCount(g) == SumCount(GroupWriters(g))
GroupSync(g) == \E w \in GroupWriters(g) : SyncOf(w)
\* Group.Send: one reply to each request of the group
Send(rc, g, err) ==
  [w \in Writers |-> IF w \in GroupWriters(g) THEN Append(rc[w], err) ELSE rc[w]]

(***************************************************************************)
(* serve                                                                   *)
(***************************************************************************)
Alive == sv.pc # "panic"
OpenReturned == opener = "done"

\* the switch at the top of the inner loop of serve: goto logging, or select
GotoLogging(l) ==
  IF l.closing THEN ~Empty(l)
  ELSE ~l.pause /\ ~l.slowdown /\ ~Empty(l)
LoopTop(l) == [l EXCEPT !.pc = IF GotoLogging(l) THEN "wbg" ELSE "loop"]
RequestcOpen ==
  /\ ~sv.closing
  /\ (~sv.pause /\ ~sv.slowdown) \/ ~HasPending(sv)
Selecting == Alive /\ sv.pc = "loop"

\* the head of mainLoop: throttle, then the switch
Throttle ==
  /\ Alive /\ sv.pc = "throttle"
  /\ LET t == throttle(db) IN
       /\ db' = t.db
       /\ sv' = LoopTop([sv EXCEPT !.slowdown = t.slowdown, !.pause = t.pause])
  /\ UNCHANGED <<it, tw, fi, fs, requestc, drainer, opener, wpc, replyc, clpc, closeReply, rd,
                 faults, hist>>

SelectClosed ==
  /\ Selecting /\ db.closed
  /\ sv' = [sv EXCEPT !.pc = "exited"]
  /\ UNCHANGED <<it, tw, fi, db, fs, requestc, drainer, opener, wpc, replyc, clpc, closeReply,
                 rd, faults, hist>>

SelectNextLogFile ==
  /\ Selecting /\ db.nextLogFile # <<>>
  /\ LET logFile == Head(db.nextLogFile)
         s1 == [db EXCEPT !.nextLogFile = Tail(@), !.bgGroup = @ - 1]
     IN IF logFile = 0
          THEN db' = s1 /\ sv' = sv
        ELSE /\ db' = [openLog(s1, s1.nextLogNumber) EXCEPT !.nextLogNumber = 0]
             /\ sv' = [sv EXCEPT !.pc = "throttle"]
  /\ UNCHANGED <<it, tw, fi, fs, requestc, drainer, opener, wpc, replyc, clpc, closeReply, rd,
                 faults, hist>>

SelectCollectionDone ==
  /\ Selecting /\ db.collectionDone # 0 /\ db.collectionDone \in db.closedChans
  /\ \E seek \in BOOLEAN : db' = completeCollectionFiles(db, seek)
  /\ UNCHANGED <<it, tw, fi, fs, requestc, sv, drainer, opener, wpc, replyc, clpc, closeReply,
                 rd, faults, hist>>

SelectCompactionResult ==
  /\ Selecting /\ db.compactionResultc # <<>>
  /\ \E seek \in BOOLEAN :
       db' = completeCompaction([db EXCEPT !.compactionResultc = Tail(@)],
                                Head(db.compactionResultc), seek)
  /\ sv' = [sv EXCEPT !.pc = "throttle"]
  /\ hist' = [hist EXCEPT !.staleApply =
                 @ \/ LET r == Head(db.compactionResultc)
                      IN r.err = "nil" /\ r.edit.lastSequence < db.lastSequence]
  /\ UNCHANGED <<it, tw, fi, fs, requestc, drainer, opener, wpc, replyc, clpc, closeReply, rd,
                 faults>>

SelectSlowdown ==
  /\ Selecting /\ sv.slowdown
  /\ sv' = [sv EXCEPT !.pc = "wbg"]
  /\ UNCHANGED <<it, tw, fi, db, fs, requestc, drainer, opener, wpc, replyc, clpc, closeReply,
                 rd, faults, hist>>

\* case req := <-requestc with the nil batch of Close
SelectSentinel ==
  /\ Selecting /\ RequestcOpen /\ requestc # <<>> /\ Head(requestc).kind = "nil"
  /\ requestc' = Tail(requestc)
  /\ sv' = LoopTop([sv EXCEPT !.closing = TRUE])
  /\ drainer' = TRUE
  /\ closeReply' = [closeReply EXCEPT ![Head(requestc).who] = TRUE]
  /\ UNCHANGED <<it, tw, fi, db, fs, opener, wpc, replyc, clpc, rd, faults, hist>>

\* case req := <-requestc with a batch
SelectRequest ==
  /\ Selecting /\ RequestcOpen /\ requestc # <<>> /\ Head(requestc).kind = "batch"
  /\ requestc' = Tail(requestc)
  /\ sv' = [Push(sv, Head(requestc)) EXCEPT
              !.pc = IF sv.pause \/ sv.slowdown THEN "loop" ELSE "wbg"]
  /\ UNCHANGED <<it, tw, fi, db, fs, drainer, opener, wpc, replyc, clpc, closeReply, rd,
                 faults, hist>>

drainRequests ==
  /\ Alive /\ drainer /\ requestc # <<>>
  /\ requestc' = Tail(requestc)
  /\ replyc' = [replyc EXCEPT ![Head(requestc).who] = Append(@, "closed")]
  /\ UNCHANGED <<it, tw, fi, db, fs, sv, drainer, opener, wpc, clpc, closeReply, rd, faults, hist>>

(***************************************************************************)
(* writeBatchGroup, in the three steps other goroutines can see between:   *)
(* the checks and the sequence assignment, the log write, the memtable     *)
(* application with the replies                                            *)
(***************************************************************************)
GroupSeqs(first, n) == first .. (first + n - 1)

\* lastSequence.Add with the batch's last sequence taken for its count
AssignLastSequenceShort(lastSeq, n) == lastSeq + n - 1

\* db.state.SetLastSequence(lastSequence.Add(uint64(batch.Count())))
AssignLastSequence(lastSeq, n) == lastSeq + n

WbgStart ==
  /\ Alive /\ sv.pc = "wbg"
  /\ IF Empty(sv)
       THEN /\ sv' = [sv EXCEPT !.pc = "throttle"]
            /\ UNCHANGED <<db, replyc, hist>>
     ELSE IF ~db.log
       THEN /\ replyc' = Send(replyc, sv, db.logErr)
            /\ sv' = [Rewind(sv) EXCEPT !.pc = "throttle"]
            /\ UNCHANGED <<db, hist>>
     ELSE IF db.compactionErr # "nil"
       THEN /\ replyc' = Send(replyc, sv, db.compactionErr)
            /\ sv' = [Rewind(sv) EXCEPT !.pc = "throttle"]
            /\ UNCHANGED <<db, hist>>
     ELSE /\ sv' = [sv EXCEPT !.pc = "wbg_log", !.batchSeq = db.lastSequence + 1]
          /\ db' = [db EXCEPT !.lastSequence = AssignLastSequence(@, GroupCount(sv))]
          /\ hist' = [hist EXCEPT
                 !.ranges = Append(@, [first |-> db.lastSequence + 1,
                                       n |-> GroupCount(sv),
                                       before |-> db.lastSequence,
                                       after |-> AssignLastSequence(db.lastSequence,
                                                                    GroupCount(sv))]),
                 !.wrange = [w \in Writers |->
                               IF w \in GroupWriters(sv)
                                 THEN GroupSeqs(db.lastSequence + 1, GroupCount(sv))
                               ELSE @[w]]]
          /\ UNCHANGED replyc
  /\ UNCHANGED <<it, tw, fi, fs, requestc, drainer, opener, wpc, clpc, closeReply, rd, faults>>

BatchSeqs == GroupSeqs(sv.batchSeq, GroupCount(sv))

\* writeLog succeeds: the record is appended, and the file synced on request
WbgLog ==
  /\ Alive /\ sv.pc = "wbg_log" /\ db.log
  /\ fs' = [fs EXCEPT !.logs[db.logNumber] = @ \cup BatchSeqs,
                      !.synced = IF GroupSync(sv)
                                   THEN @ \cup fs.logs[db.logNumber] \cup BatchSeqs
                                 ELSE @]
  /\ sv' = [sv EXCEPT !.pc = "wbg_apply"]
  /\ hist' = [hist EXCEPT !.appended = @ \cup BatchSeqs]
  /\ UNCHANGED <<it, tw, fi, db, requestc, drainer, opener, wpc, replyc, clpc, closeReply, rd,
                 faults>>

\* db.log.Write fails: nothing is appended
WbgLogWriteFails ==
  /\ Alive /\ sv.pc = "wbg_log" /\ db.log /\ faults < MaxFaults
  /\ faults' = IF faults < 0 THEN faults ELSE faults + 1
  /\ replyc' = Send(replyc, sv, "err")
  /\ db' = closeLog(db, "err")
  /\ sv' = [Rewind(sv) EXCEPT !.pc = "throttle"]
  /\ hist' = [hist EXCEPT !.failed = @ \cup BatchSeqs]
  /\ UNCHANGED <<it, tw, fi, fs, requestc, drainer, opener, wpc, clpc, closeReply, rd>>

\* db.logFile.Sync fails after the record was appended
WbgLogSyncFails ==
  /\ Alive /\ sv.pc = "wbg_log" /\ db.log /\ GroupSync(sv) /\ faults < MaxFaults
  /\ faults' = IF faults < 0 THEN faults ELSE faults + 1
  /\ fs' = [fs EXCEPT !.logs[db.logNumber] = @ \cup BatchSeqs]
  /\ replyc' = Send(replyc, sv, "err")
  /\ db' = closeLog(db, "err")
  /\ sv' = [Rewind(sv) EXCEPT !.pc = "throttle"]
  /\ hist' = [hist EXCEPT !.failed = @ \cup BatchSeqs, !.appended = @ \cup BatchSeqs]
  /\ UNCHANGED <<it, tw, fi, requestc, drainer, opener, wpc, clpc, closeReply, rd>>

\* db.log was set to nil by Close's closeLog since writeBatchGroup tested it:
\* db.log.Write dereferences nil and the process panics
WbgLogNil ==
  /\ Alive /\ sv.pc = "wbg_log" /\ ~db.log
  /\ sv' = [sv EXCEPT !.pc = "panic"]
  /\ UNCHANGED <<it, tw, fi, db, fs, requestc, drainer, opener, wpc, replyc, clpc, closeReply,
                 rd, faults, hist>>

\* the other outcome of that race: writeLog still sees the writer Close has
\* closed, and the write to the closed file fails
WbgLogClosedFile ==
  /\ Alive /\ sv.pc = "wbg_log" /\ ~db.log
  /\ replyc' = Send(replyc, sv, "err")
  /\ db' = closeLog(db, "err")
  /\ sv' = [Rewind(sv) EXCEPT !.pc = "throttle"]
  /\ hist' = [hist EXCEPT !.failed = @ \cup BatchSeqs]
  /\ UNCHANGED <<it, tw, fi, fs, requestc, drainer, opener, wpc, clpc, closeReply, rd, faults>>

\* batch.Iterate(db.mem); writes.Send(nil); writes.Rewind()
WbgApply ==
  /\ Alive /\ sv.pc = "wbg_apply"
  /\ db' = [db EXCEPT !.memtab[db.mem] = @ \cup BatchSeqs]
  /\ replyc' = Send(replyc, sv, "nil")
  /\ sv' = [Rewind(sv) EXCEPT !.pc = "throttle"]
  /\ hist' = [hist EXCEPT !.applied = @ \cup BatchSeqs, !.acked = @ \cup BatchSeqs]
  /\ UNCHANGED <<it, tw, fi, fs, requestc, drainer, opener, wpc, clpc, closeReply, rd, faults>>

(***************************************************************************)
(* compactAndLog                                                           *)
(***************************************************************************)
SetJob(s, j, j2) == [s EXCEPT !.jobs = (@ \ {j}) \cup {j2}]
EndJob(s, j) == [s EXCEPT !.jobs = @ \ {j}]
SendResult(s, r) == [s EXCEPT !.compactionResultc = Append(@, r)]
IsCompaction(j) == j.kind \in {"mem", "lvl"}
TableData(files, ts) == UNION {files[t] : t \in ts \cap DOMAIN files}

\* timeout += timeout/2 + time.Second
Backoff(timeout) == timeout + timeout \div 2 + Second

\* c.Compact(edit) succeeds: the output table is written
Compact ==
  \E j \in db.jobs :
    /\ Alive /\ IsCompaction(j) /\ j.pc = "compact"
    /\ LET out == IF j.kind = "mem" THEN j.out ELSE db.nextFileNumber
           data == IF j.kind = "mem" THEN j.src ELSE TableData(fs.tables, j.src)
           edit == IF j.kind = "mem" THEN [j.edit EXCEPT !.add0 = {out}]
                   ELSE [j.edit EXCEPT !.deleted = j.src, !.addN = {out}]
           s1 == IF j.kind = "mem" THEN db ELSE [db EXCEPT !.nextFileNumber = @ + 1]
       IN /\ fs' = [fs EXCEPT !.tables = (out :> data) @@ @]
          /\ db' = SetJob(s1, j, [j EXCEPT !.pc = "log", !.compacted = TRUE,
                                           !.timeout = 0,
                                           !.edit = edit, !.out = out])
    /\ UNCHANGED <<it, tw, fi, requestc, sv, drainer, opener, wpc, replyc, clpc, closeReply, rd,
                   faults, hist>>

CompactFails ==
  \E j \in db.jobs :
    /\ Alive /\ IsCompaction(j) /\ j.pc = "compact"
    /\ faults < MaxFaults /\ Len(db.compactionResultc) < ResultCap
    /\ faults >= 0 \/ j.timeout < MaxTimeout
    /\ faults' = IF faults < 0 THEN faults ELSE faults + 1
    /\ db' = SetJob(SendResult(db, Result(j.level, "err", NoEdit, FALSE)), j,
                    [j EXCEPT !.pc = "retry", !.timeout = Backoff(j.timeout)])
    /\ UNCHANGED <<it, tw, fi, fs, requestc, sv, drainer, opener, wpc, replyc, clpc, closeReply,
                   rd, hist>>

\* db.state.Log(edit) succeeds: the result carries the edit and the goroutine ends
LogManifest ==
  \E j \in db.jobs :
    /\ Alive /\ IsCompaction(j) /\ j.pc = "log"
    /\ Len(db.compactionResultc) < ResultCap
    /\ db' = EndJob([SendResult(db, Result(j.level, "nil", j.edit, FALSE))
                       EXCEPT !.manifest = LogEdit(@, j.edit)], j)
    /\ UNCHANGED <<it, tw, fi, fs, requestc, sv, drainer, opener, wpc, replyc, clpc, closeReply,
                   rd, faults, hist>>

LogManifestFails ==
  \E j \in db.jobs :
    /\ Alive /\ IsCompaction(j) /\ j.pc = "log"
    /\ faults < MaxFaults /\ Len(db.compactionResultc) < ResultCap
    /\ faults >= 0 \/ j.timeout < MaxTimeout
    /\ faults' = IF faults < 0 THEN faults ELSE faults + 1
    /\ db' = SetJob(SendResult(db, Result(j.level, "err", NoEdit, FALSE)), j,
                    [j EXCEPT !.pc = "retry", !.timeout = Backoff(j.timeout)])
    /\ UNCHANGED <<it, tw, fi, fs, requestc, sv, drainer, opener, wpc, replyc, clpc, closeReply,
                   rd, hist>>

\* case <-time.After(timeout)
RetryCompaction ==
  \E j \in db.jobs :
    /\ Alive /\ IsCompaction(j) /\ j.pc = "retry"
    /\ db' = SetJob(db, j, [j EXCEPT !.pc = IF j.compacted THEN "log" ELSE "compact"])
    /\ UNCHANGED <<it, tw, fi, fs, requestc, sv, drainer, opener, wpc, replyc, clpc, closeReply,
                   rd, faults, hist>>

\* case <-db.bgClosing
AbortCompaction ==
  \E j \in db.jobs :
    /\ Alive /\ IsCompaction(j) /\ j.pc = "retry" /\ db.bgClosing
    /\ Len(db.compactionResultc) < ResultCap
    /\ fs' = [fs EXCEPT !.tables =
                [t \in DOMAIN @ \ (IF j.compacted THEN {j.out} ELSE {}) |-> @[t]]]
    /\ db' = EndJob(SendResult(db, Result(j.level, "err", NoEdit, TRUE)), j)
    /\ UNCHANGED <<it, tw, fi, requestc, sv, drainer, opener, wpc, replyc, clpc, closeReply, rd,
                   faults, hist>>

(***************************************************************************)
(* removeObsoleteFiles and openNextLog                                     *)
(***************************************************************************)
\* State.AddLiveFiles: the tables of every live version
LiveTables == Tables(db.current) \cup
              (IF rd.pc = "mems" THEN Tables(rd.ver) ELSE {})

removeObsoleteFiles ==
  \E j \in db.jobs :
    /\ Alive /\ j.kind = "col"
    /\ fs' = [fs EXCEPT
                !.logs = [n \in {x \in DOMAIN @ : x >= j.num} |-> @[n]],
                !.tables = [t \in DOMAIN @ \cap LiveTables |-> @[t]]]
    /\ db' = EndJob([db EXCEPT !.closedChans = @ \cup {j.id}, !.bgGroup = @ - 1], j)
    /\ UNCHANGED <<it, tw, fi, requestc, sv, drainer, opener, wpc, replyc, clpc, closeReply, rd,
                   faults, hist>>

\* db.fs.Open succeeds and the file is sent
openNextLog ==
  \E j \in db.jobs :
    /\ Alive /\ j.kind = "nlog" /\ j.pc = "open"
    /\ Len(db.nextLogFile) < NextLogCap
    /\ fs' = [fs EXCEPT !.logs = (j.num :> {}) @@ @]
    /\ db' = EndJob([db EXCEPT !.nextLogFile = Append(@, j.num)], j)
    /\ UNCHANGED <<it, tw, fi, requestc, sv, drainer, opener, wpc, replyc, clpc, closeReply, rd,
                   faults, hist>>

openNextLogFails ==
  \E j \in db.jobs :
    /\ Alive /\ j.kind = "nlog" /\ j.pc = "open"
    /\ faults < MaxFaults
    /\ faults' = IF faults < 0 THEN faults ELSE faults + 1
    /\ db' = SetJob(db, j, [j EXCEPT !.pc = "retry"])
    /\ UNCHANGED <<it, tw, fi, fs, requestc, sv, drainer, opener, wpc, replyc, clpc, closeReply,
                   rd, hist>>

\* case <-time.After(timeout)
openNextLogRetry ==
  \E j \in db.jobs :
    /\ Alive /\ j.kind = "nlog" /\ j.pc = "retry"
    /\ db' = SetJob(db, j, [j EXCEPT !.pc = "open"])
    /\ UNCHANGED <<it, tw, fi, fs, requestc, sv, drainer, opener, wpc, replyc, clpc, closeReply,
                   rd, faults, hist>>

\* case <-db.bgClosing: db.nextLogFile <- nil
openNextLogAbort ==
  \E j \in db.jobs :
    /\ Alive /\ j.kind = "nlog" /\ j.pc = "retry" /\ db.bgClosing
    /\ Len(db.nextLogFile) < NextLogCap
    /\ db' = EndJob([db EXCEPT !.nextLogFile = Append(@, 0)], j)
    /\ UNCHANGED <<it, tw, fi, fs, requestc, sv, drainer, opener, wpc, replyc, clpc, closeReply,
                   rd, faults, hist>>

(***************************************************************************)
(* The callers: Open's tail, Write, Close, get                             *)
(***************************************************************************)
\* recoverDB: db.tryStartBackground() after go db.serve()
OpenTryStartBackground ==
  /\ Alive /\ opener = "start"
  /\ \E seek \in BOOLEAN : db' = tryStartBackground(db, seek)
  /\ opener' = "done"
  /\ UNCHANGED <<it, tw, fi, fs, requestc, sv, drainer, wpc, replyc, clpc, closeReply, rd,
                 faults, hist>>

\* Write: if db.closing { return ErrDBClosed }
WriteBegin(w) ==
  /\ Alive /\ OpenReturned /\ wpc[w] = "idle"
  /\ wpc' = [wpc EXCEPT ![w] = IF db.closing THEN "closed" ELSE "send"]
  /\ hist' = [hist EXCEPT !.late = IF db.closing THEN @ \cup {w} ELSE @]
  /\ UNCHANGED <<it, tw, fi, db, fs, requestc, sv, drainer, opener, replyc, clpc, closeReply,
                 rd, faults>>

\* db.requestc <- request{...}; the call then waits in <-replyc
WriteSend(w) ==
  /\ Alive /\ wpc[w] = "send" /\ Len(requestc) < RequestCap
  /\ requestc' = Append(requestc, Request("batch", w))
  /\ wpc' = [wpc EXCEPT ![w] = "wait"]
  /\ hist' = [hist EXCEPT !.lateSent = IF hist.sentinels > 0 THEN @ \cup {w} ELSE @]
  /\ UNCHANGED <<it, tw, fi, db, fs, sv, drainer, opener, replyc, clpc, closeReply, rd, faults>>

\* what a Write call has returned ("none" while it has not)
WriteResult(w) ==
  IF wpc[w] = "closed" THEN "closed"
  ELSE IF wpc[w] = "wait" /\ replyc[w] # <<>> THEN Head(replyc[w])
  ELSE "none"

ReaderHoldsLock == rd.pc = "mems"

\* a Close that sets db.closing without testing it
CloseBeginUntested(c) ==
  /\ Alive /\ OpenReturned /\ clpc[c] = "idle" /\ ~ReaderHoldsLock
  /\ db' = [db EXCEPT !.closing = TRUE]
  /\ clpc' = [clpc EXCEPT ![c] = "sentinel"]
  /\ UNCHANGED <<it, tw, fi, fs, requestc, sv, drainer, opener, wpc, replyc, closeReply, rd,
                 faults, hist>>

\* Close: the test and set of db.closing under db.mu
CloseBegin(c) ==
  /\ Alive /\ OpenReturned /\ clpc[c] = "idle" /\ ~ReaderHoldsLock
  /\ db' = [db EXCEPT !.closing = TRUE]
  /\ clpc' = [clpc EXCEPT ![c] = IF db.closing THEN "waitClosed" ELSE "sentinel"]
  /\ UNCHANGED <<it, tw, fi, fs, requestc, sv, drainer, opener, wpc, replyc, closeReply, rd,
                 faults, hist>>

\* <-db.closed; return nil
CloseWaitClosed(c) ==
  /\ Alive /\ clpc[c] = "waitClosed" /\ db.closed
  /\ clpc' = [clpc EXCEPT ![c] = "done"]
  /\ UNCHANGED <<it, tw, fi, db, fs, requestc, sv, drainer, opener, wpc, replyc, closeReply,
                 rd, faults, hist>>

\* db.requestc <- request{batch: nil, replyc: replyc}
CloseSentinel(c) ==
  /\ Alive /\ clpc[c] = "sentinel" /\ Len(requestc) < RequestCap
  /\ requestc' = Append(requestc, Request("nil", c))
  /\ clpc' = [clpc EXCEPT ![c] = "waitReply"]
  /\ hist' = [hist EXCEPT !.sentinels = @ + 1]
  /\ UNCHANGED <<it, tw, fi, db, fs, sv, drainer, opener, wpc, replyc, closeReply, rd, faults>>

\* <-replyc; close(db.bgClosing)
CloseSignal(c) ==
  /\ Alive /\ clpc[c] = "waitReply" /\ closeReply[c]
  /\ db' = [db EXCEPT !.bgClosing = TRUE]
  /\ clpc' = [clpc EXCEPT ![c] = "wait"]
  /\ hist' = [hist EXCEPT !.bgClosings = @ + 1]
  /\ UNCHANGED <<it, tw, fi, fs, requestc, sv, drainer, opener, wpc, replyc, closeReply, rd,
                 faults>>

\* db.bgGroup.Wait() returns
CloseWait(c) ==
  /\ Alive /\ clpc[c] = "wait" /\ db.bgGroup = 0
  /\ clpc' = [clpc EXCEPT ![c] = "finish"]
  /\ UNCHANGED <<it, tw, fi, db, fs, requestc, sv, drainer, opener, wpc, replyc, closeReply, rd,
                 faults, hist>>

\* the lock is released, the log closed; the deferred close(db.closed) runs
CloseFinish(c) ==
  /\ Alive /\ clpc[c] = "finish"
  /\ db' = [closeLog(db, "nil") EXCEPT !.locker = FALSE, !.closed = TRUE]
  /\ clpc' = [clpc EXCEPT ![c] = "done"]
  /\ hist' = [hist EXCEPT !.unlocks = @ + (IF db.locker THEN 1 ELSE 0),
                          !.logCloses = @ + 1]
  /\ UNCHANGED <<it, tw, fi, fs, requestc, sv, drainer, opener, wpc, replyc, closeReply, rd,
                 faults>>

\* MemTable.Get / Version.Get at sequence seq: the newest item not above seq
Newest(items, seq) == MaxOf({x \in items : x <= seq})

Lookup(r) ==
  LET inMem == Newest(db.memtab[r.mem], r.seq)
      inImm == IF r.imm = 0 THEN 0 ELSE Newest(db.memtab[r.imm], r.seq)
  IN IF inMem # 0 THEN inMem
     ELSE IF inImm # 0 THEN inImm
     ELSE Newest(TableData(fs.tables, Tables(r.ver)), r.seq)

\* get: db.mu.RLock(); the test of db.closing; db.state.LastSequence();
\* db.state.RetainCurrent()
GetBegin ==
  /\ Alive /\ OpenReturned /\ rd.pc = "idle"
  /\ rd' = IF db.closing THEN [rd EXCEPT !.pc = "done", !.res = -1]
           ELSE [rd EXCEPT !.pc = "mems", !.seq = db.lastSequence,
                           !.ver = db.current, !.acked = MaxOf(hist.acked)]
  /\ UNCHANGED <<it, tw, fi, db, fs, requestc, sv, drainer, opener, wpc, replyc, clpc,
                 closeReply, faults, hist>>

\* memtables := [2]*memtable.MemTable{db.mem, db.imm}; db.mu.RUnlock(); the
\* lookups in the memtables and the version
GetSearch ==
  /\ Alive /\ rd.pc = "mems"
  /\ rd' = [rd EXCEPT !.pc = "done", !.mem = db.mem, !.imm = db.imm,
                      !.res = Lookup([rd EXCEPT !.mem = db.mem, !.imm = db.imm])]
  /\ UNCHANGED <<it, tw, fi, db, fs, requestc, sv, drainer, opener, wpc, replyc, clpc,
                 closeReply, faults, hist>>

\* NewSnapshot, first half: db.mu.RLock(); the test of db.closing;
\* ss.seq = db.state.LastSequence(); db.mu.RUnlock()
NewSnapshotBegin ==
  /\ Alive /\ OpenReturned /\ rd.pc = "snap"
  /\ rd' = IF db.closing THEN [rd EXCEPT !.pc = "snapNil"]
           ELSE [rd EXCEPT !.pc = "snapRead", !.seq = db.lastSequence]
  /\ UNCHANGED <<it, tw, fi, db, fs, requestc, sv, drainer, opener, wpc, replyc, clpc,
                 closeReply, faults, hist>>

\* NewSnapshot, second half: db.snapshots.PushBack(ss) under snapshotsMu
NewSnapshotPush ==
  /\ Alive /\ rd.pc = "snapRead"
  /\ db' = [db EXCEPT !.snapshots = Append(@, rd.seq)]
  /\ rd' = [rd EXCEPT !.pc = "snapHeld"]
  /\ UNCHANGED <<it, tw, fi, fs, requestc, sv, drainer, opener, wpc, replyc, clpc,
                 closeReply, faults, hist>>

\* releaseSnapshot: the one snapshot leaves the list
releaseSnapshot ==
  /\ Alive /\ rd.pc = "snapHeld"
  /\ db' = [db EXCEPT !.snapshots = Tail(@)]
  /\ rd' = [rd EXCEPT !.pc = "snapReleased"]
  /\ UNCHANGED <<it, tw, fi, fs, requestc, sv, drainer, opener, wpc, replyc, clpc,
                 closeReply, faults, hist>>

(***************************************************************************)
(* internal/iterator/range.go: a rangeIterator over an iterator of the     *)
(* sorted keys it.keys. The position of the underlying iterator is the key *)
(* it stands on, BeforeFirst or Eof.                                       *)
(***************************************************************************)
BeforeFirst == 0
Eof == MaxKey + 1

\* the underlying Iterator
IterValid(ks, p) == p \in ks
IterSeek(ks, target) ==
  IF \E k \in ks : k >= target
    THEN CHOOSE k \in ks : k >= target /\ \A j \in ks : j >= target => k <= j
  ELSE Eof
IterLast(ks) == IF ks = {} THEN BeforeFirst ELSE MaxOf(ks)
IterNext(ks, p) == IterSeek(ks, p + 1)
IterPrev(ks, p) == IF \E k \in ks : k < p THEN MaxOf({k \in ks : k < p})
                   ELSE BeforeFirst

\* a checkStart that refuses the start itself
checkStartExclusive(r) ==
  [r EXCEPT !.valid = IterValid(r.keys, r.pos) /\ r.pos > r.start]

checkStart(r) ==
  [r EXCEPT !.valid = IterValid(r.keys, r.pos) /\ r.pos >= r.start]

\* a checkLimit that admits the limit itself
checkLimitInclusive(r) ==
  [r EXCEPT !.valid = IterValid(r.keys, r.pos) /\ r.pos <= r.limit]

checkLimit(r) ==
  [r EXCEPT !.valid = IterValid(r.keys, r.pos) /\ r.pos < r.limit]

\* First; `fail` says that the seek of the underlying iterator hits an error
RangeFirst(r, fail) ==
  checkLimit([r EXCEPT !.soi = TRUE,
                       !.pos = IF fail THEN Eof ELSE IterSeek(r.keys, r.start)])

\* the loops of Last: step back until the key is below the limit
RECURSIVE PrevBelowLimit(_, _, _)
PrevBelowLimit(ks, p, limit) ==
  IF ~IterValid(ks, p) \/ p < limit THEN p
  ELSE PrevBelowLimit(ks, IterPrev(ks, p), limit)

RangeLast(r, fail) ==
  LET r1 == [r EXCEPT !.soi = TRUE]
      sought == IF fail THEN Eof ELSE IterSeek(r.keys, r.limit)
      from == IF IterValid(r.keys, sought) THEN IterPrev(r.keys, sought)
              ELSE IterLast(r.keys)
      p == PrevBelowLimit(r.keys, from, r.limit)
  IN IF IterValid(r.keys, p) THEN checkStart([r1 EXCEPT !.pos = p])
     ELSE [r1 EXCEPT !.pos = p, !.valid = FALSE]

RangeNext(r, fail) ==
  IF ~r.soi THEN RangeFirst(r, fail)
  ELSE IF r.valid THEN checkLimit([r EXCEPT !.pos = IterNext(r.keys, r.pos)])
  ELSE r

RangePrev(r, fail) ==
  IF ~r.soi THEN RangeLast(r, fail)
  ELSE IF r.valid THEN checkStart([r EXCEPT !.pos = IterPrev(r.keys, r.pos)])
  ELSE r

RangeSeek(r, target, fail) ==
  LET r1 == [r EXCEPT !.soi = TRUE] IN
  IF target >= r.start /\ target >= r.limit THEN [r1 EXCEPT !.valid = FALSE]
  ELSE LET t == IF target < r.start THEN r.start ELSE target IN
    checkLimit([r1 EXCEPT !.pos = IF fail THEN Eof ELSE IterSeek(r.keys, t)])

\* the calls; it.op, it.target and it.fail remember the last one
Called(r, op, target, fail) ==
  [r EXCEPT !.op = op, !.target = target, !.fail = fail]

CallFirst ==
  /\ it.on
  /\ \E fail \in BOOLEAN : it' = Called(RangeFirst(it, fail), "First", 0, fail)
  /\ UNCHANGED <<dbvars, tw, fi>>

CallLast ==
  /\ it.on
  /\ \E fail \in BOOLEAN : it' = Called(RangeLast(it, fail), "Last", 0, fail)
  /\ UNCHANGED <<dbvars, tw, fi>>

CallNext ==
  /\ it.on
  /\ \E fail \in BOOLEAN : it' = Called(RangeNext(it, fail), "Next", 0, fail)
  /\ UNCHANGED <<dbvars, tw, fi>>

CallPrev ==
  /\ it.on
  /\ \E fail \in BOOLEAN : it' = Called(RangePrev(it, fail), "Prev", 0, fail)
  /\ UNCHANGED <<dbvars, tw, fi>>

CallSeek ==
  /\ it.on
  /\ \E target \in 0 .. Eof, fail \in BOOLEAN :
       it' = Called(RangeSeek(it, target, fail), "Seek", target, fail)
  /\ UNCHANGED <<dbvars, tw, fi>>

\* NewRangeIterator with both bounds, start < limit
NewRangeIterator(ks, start, limit) ==
  [on |-> TRUE, keys |-> ks, start |-> start, limit |-> limit, soi |-> FALSE,
   valid |-> FALSE, pos |-> BeforeFirst, op |-> "none", target |-> 0,
   fail |-> FALSE]

NoIterator == [NewRangeIterator({}, 0, 0) EXCEPT !.on = FALSE]

\* the iterator `empty`: every positioning call returns false
EmptyCall(r) == [r EXCEPT !.soi = TRUE, !.valid = FALSE]

\* NewRangeIterator with both bounds given: `empty` when start >= limit.
\* seen, dir and done record a scan: the keys yielded so far, its direction,
\* and whether a call has returned false.
NewBoundedIterator(ks, start, limit) ==
  NewRangeIterator(ks, start, limit)
  @@ [kind |-> IF start >= limit THEN "empty" ELSE "range",
      seen |-> << >>, dir |-> "none", done |-> FALSE]

Yield(r, op, dir) ==
  [r EXCEPT !.op = IF r.dir = "none" THEN op ELSE @,
            !.dir = dir,
            !.done = ~r.valid,
            !.seen = IF r.valid THEN Append(@, r.pos) ELSE @]

ScanFirst ==
  /\ it.on /\ it.dir = "none"
  /\ it' = Yield(IF it.kind = "empty" THEN EmptyCall(it)
                 ELSE RangeFirst(it, FALSE), "First", "fwd")
  /\ UNCHANGED <<dbvars, tw, fi>>

ScanNext ==
  /\ it.on /\ it.dir \in {"none", "fwd"} /\ ~it.done
  /\ it' = Yield(IF it.kind = "empty" THEN EmptyCall(it)
                 ELSE RangeNext(it, FALSE), "Next", "fwd")
  /\ UNCHANGED <<dbvars, tw, fi>>

ScanLast ==
  /\ it.on /\ it.dir = "none"
  /\ it' = Yield(IF it.kind = "empty" THEN EmptyCall(it)
                 ELSE RangeLast(it, FALSE), "Last", "bwd")
  /\ UNCHANGED <<dbvars, tw, fi>>

ScanPrev ==
  /\ it.on /\ it.dir \in {"none", "bwd"} /\ ~it.done
  /\ it' = Yield(IF it.kind = "empty" THEN EmptyCall(it)
                 ELSE RangePrev(it, FALSE), "Prev", "bwd")
  /\ UNCHANGED <<dbvars, tw, fi>>

(***************************************************************************)
(* internal/iterator/start.go: a startIterator (no limit) over the same    *)
(* underlying iterator                                                     *)
(***************************************************************************)
StartCheckStart(r) ==
  [r EXCEPT !.valid = IterValid(r.keys, r.pos) /\ r.pos >= r.start]

StartFirst(r, fail) ==
  LET p == IF fail THEN Eof ELSE IterSeek(r.keys, r.start)
  IN [r EXCEPT !.seeked = TRUE, !.pos = p, !.valid = IterValid(r.keys, p)]

StartLast(r) ==
  StartCheckStart([r EXCEPT !.seeked = TRUE, !.pos = IterLast(r.keys)])

StartNext(r, fail) ==
  IF r.seeked
    THEN LET p == IterNext(r.keys, r.pos)
         IN [r EXCEPT !.pos = p, !.valid = IterValid(r.keys, p)]
  ELSE StartFirst(r, fail)

StartPrev(r) ==
  StartCheckStart([r EXCEPT !.seeked = TRUE, !.pos = IterPrev(r.keys, r.pos)])

StartSeek(r, target, fail) ==
  LET t == IF target < r.start THEN r.start ELSE target
      p == IF fail THEN Eof ELSE IterSeek(r.keys, t)
  IN [r EXCEPT !.seeked = TRUE, !.pos = p, !.valid = IterValid(r.keys, p)]

StartCallFirst ==
  /\ it.on
  /\ \E fail \in BOOLEAN : it' = Called(StartFirst(it, fail), "First", 0, fail)
  /\ UNCHANGED <<dbvars, tw, fi>>

StartCallLast ==
  /\ it.on
  /\ it' = Called(StartLast(it), "Last", 0, FALSE)
  /\ UNCHANGED <<dbvars, tw, fi>>

StartCallNext ==
  /\ it.on
  /\ \E fail \in BOOLEAN : it' = Called(StartNext(it, fail), "Next", 0, fail)
  /\ UNCHANGED <<dbvars, tw, fi>>

StartCallPrev ==
  /\ it.on
  /\ it' = Called(StartPrev(it), "Prev", 0, FALSE)
  /\ UNCHANGED <<dbvars, tw, fi>>

StartCallSeek ==
  /\ it.on
  /\ \E target \in 0 .. Eof, fail \in BOOLEAN :
       it' = Called(StartSeek(it, target, fail), "Seek", target, fail)
  /\ UNCHANGED <<dbvars, tw, fi>>

\* newStartIterator
NewStartIterator(ks, start) ==
  [on |-> TRUE, keys |-> ks, start |-> start, seeked |-> FALSE,
   valid |-> FALSE, pos |-> BeforeFirst, op |-> "none", target |-> 0,
   fail |-> FALSE]

(***************************************************************************)
(* recoverDB, from the state that version.Recover built from the manifest  *)
(* and the files that FileSystem.List reports                              *)
(***************************************************************************)
\* the log files recoverDB keeps: those numbered at or above the state's log
\* number
RecoverableLogs(s, files) == {n \in DOMAIN files.logs : n >= s.stLogNumber}

\* recoverLogs with no log to replay: a new log file is made
recoverNoLog(s) ==
  [s EXCEPT !.mem = 1, !.memtab = <<{}>>, !.log = TRUE,
            !.logNumber = s.nextFileNumber, !.nextFileNumber = @ + 1]

\* recoverLogs with logs to replay: the last log fills db.mem and stays the
\* log; the older ones fill mem0, which is compacted to the table `out` and
\* whose edit is applied to the state
recoverLogs(s, files, logs) ==
  LET last == MaxOf(logs)
      older == logs \ {last}
      mem0 == UNION {files.logs[n] : n \in older}
      maxSequence == Max(s.lastSequence, MaxOf(UNION {files.logs[n] : n \in logs}))
      s1 == [s EXCEPT !.mem = 1, !.memtab = <<files.logs[last]>>, !.log = TRUE,
                      !.logNumber = last, !.lastSequence = maxSequence,
                      !.nextFileNumber = Max(@, last + 1)]
      out == s1.nextFileNumber
      edit == [NoEdit EXCEPT !.lastSequence = maxSequence, !.logNumber = last,
                             !.nextFileNumber = out + 1, !.add0 = {out}]
  IN IF older = {} THEN [db |-> s1, out |-> 0, data |-> {}]
     ELSE [db |-> Apply([s1 EXCEPT !.nextFileNumber = out + 1], edit),
           out |-> out, data |-> mem0]

\* recoverDB after version.Recover; `fail` says that recoverLogs meets an
\* I/O error. The set `tables` of tables to find is made empty and nothing
\* is ever put into it.
RecoverDB ==
  /\ opener = "recover"
  /\ \E fail \in BOOLEAN :
       LET logs == RecoverableLogs(db, fs)
           tables == {}
           missing == tables \ DOMAIN fs.tables
           r == recoverLogs(db, fs, logs)
       IN IF missing # {} THEN opener' = "failed" /\ UNCHANGED <<db, fs>>
          ELSE IF fail
            THEN opener' = "failed" /\ db' = closeLog(db, "nil") /\ UNCHANGED fs
          ELSE IF logs = {}
            THEN /\ opener' = "start"
                 /\ db' = recoverNoLog(db)
                 /\ fs' = [fs EXCEPT !.logs = (db.nextFileNumber :> {}) @@ @]
          ELSE /\ opener' = "start"
               /\ db' = r.db
               /\ fs' = IF r.out = 0 THEN fs
                        ELSE [fs EXCEPT !.tables = (r.out :> r.data) @@ @]
  /\ UNCHANGED <<it, tw, fi, requestc, sv, drainer, wpc, replyc, clpc, closeReply, rd,
                 faults, hist>>

(***************************************************************************)
(* table.Writer: keys are numbers, an entry is its key, the length of a    *)
(* block is the number of its entries and one restart word                 *)
(***************************************************************************)
\* the entries that fill a data block (options.BlockSize)
BlockEntries == 2
\* the type byte and the 32-bit checksum that follow a block
BlockTrailerSize == 5
FooterLength == 48

Handle(offset, length) == [offset |-> offset, length |-> length]
NoHandle == Handle(0, 0)
BlockLength(entries) == Len(entries) + 1

\* Comparator.AppendSuccessor(start, limit): a key k with start <= k, and
\* k < limit when there is a limit (0: nil)
Successors(start, limit) ==
  {k \in 0 .. MaxKey : start <= k /\ (limit = 0 \/ k < limit)}

\* writeBlock and writeRawBlock: one Writev of the block and its trailer
writeBlock(w, kind, entries, fail) ==
  IF fail THEN [w |-> w, handle |-> NoHandle, err |-> TRUE]
  ELSE [w |-> [w EXCEPT !.offset = @ + BlockLength(entries) + BlockTrailerSize,
                        !.file = Append(@, [kind |-> kind, entries |-> entries,
                                            handle |-> Handle(w.offset,
                                                              BlockLength(entries))])],
        handle |-> Handle(w.offset, BlockLength(entries)),
        err |-> FALSE]

\* an index entry for every flush: the alternative the pending handle avoids
flushPendingDataIndexAlways(w, sep) ==
  [w EXCEPT !.indexKey = sep,
            !.dataIndexBlock = Append(@, [key |-> sep, handle |-> w.pending]),
            !.pending = [@ EXCEPT !.length = 0]]

flushPendingDataIndex(w, sep) ==
  IF w.pending.length # 0
    THEN [w EXCEPT !.indexKey = sep,
                   !.dataIndexBlock = Append(@, [key |-> sep, handle |-> w.pending]),
                   !.pending = [@ EXCEPT !.length = 0]]
  ELSE w

flushDataBlock(w, fail) ==
  IF w.dataBlock = <<>> THEN w
  ELSE LET r == writeBlock(w, "data", w.dataBlock, fail)
       IN [r.w EXCEPT !.pending = r.handle, !.err = r.err, !.dataBlock = <<>>,
                      !.broken = @ \/ fail]

\* Writer.Add(key, value); sep is the separator AppendSuccessor would give,
\* fail says that the write of the data block, if there is one, fails
Add(w, key, sep, fail) ==
  IF w.err THEN [w EXCEPT !.op = "Add", !.ret = "err"]
  ELSE LET w1 == flushPendingDataIndex(w, sep)
           w2 == [w1 EXCEPT !.numEntries = @ + 1, !.lastKey = key,
                            !.dataBlock = Append(@, key)]
           w3 == IF Len(w2.dataBlock) >= BlockEntries THEN flushDataBlock(w2, fail)
                 ELSE w2
       IN [w3 EXCEPT !.op = "Add", !.ret = IF w3.err THEN "err" ELSE "nil"]

\* Writer.Finish; failAt names the write that fails, if it takes place
Finish(w, sep, failAt) ==
  LET r == [w EXCEPT !.op = "Finish"]
      failed(x) == [x EXCEPT !.err = TRUE, !.broken = TRUE, !.ret = "err"]
  IN IF w.err THEN [r EXCEPT !.ret = "err"]
     ELSE LET w1 == flushDataBlock(r, failAt = "data") IN
       IF w1.err THEN [w1 EXCEPT !.ret = "nil"]
       ELSE LET f == IF w1.filter THEN writeBlock(w1, "filter", <<>>, failAt = "filter")
                     ELSE [w |-> w1, handle |-> NoHandle, err |-> FALSE] IN
       IF f.err THEN failed(f.w)
       ELSE LET mi == writeBlock(f.w, "metaindex",
                                 IF w1.filter THEN <<f.handle>> ELSE <<>>,
                                 failAt = "metaindex") IN
       IF mi.err THEN failed(mi.w)
       ELSE LET w2 == flushPendingDataIndex(mi.w, sep)
                di == writeBlock(w2, "index", w2.dataIndexBlock, failAt = "index")
                w3 == [di.w EXCEPT !.dataIndexBlock = <<>>] IN
       IF di.err THEN failed(w3)
       ELSE IF failAt = "footer" THEN failed(w3)
       ELSE [w3 EXCEPT !.offset = @ + FooterLength,
                       !.file = Append(@, [kind |-> "footer",
                                           entries |-> <<mi.handle, di.handle>>,
                                           handle |-> Handle(w3.offset, FooterLength)]),
                       !.ret = "nil", !.finished = TRUE]

\* Writer.Reset with or without a filter policy
NewWriter(filter) ==
  [err |-> FALSE, offset |-> 0, lastKey |-> 0, indexKey |-> 0, numEntries |-> 0,
   dataBlock |-> <<>>, dataIndexBlock |-> <<>>, pending |-> NoHandle,
   filter |-> filter, file |-> <<>>,
   op |-> "Reset", ret |-> "nil", broken |-> FALSE, finished |-> FALSE]

NoWriter == NewWriter(FALSE)

TableAdd ==
  /\ ~tw.finished
  /\ \E key \in 1 .. MaxKey, fail \in BOOLEAN :
       /\ key > tw.lastKey
       /\ \E sep \in Successors(tw.lastKey, key) : tw' = Add(tw, key, sep, fail)
  /\ UNCHANGED <<dbvars, it, fi>>

TableFinish ==
  /\ ~tw.finished
  /\ \E failAt \in {"none", "data", "filter", "metaindex", "index", "footer"} :
       \E sep \in Successors(tw.lastKey, 0) : tw' = Finish(tw, sep, failAt)
  /\ UNCHANGED <<dbvars, it, fi>>

(***************************************************************************)
(* version.fileIterator over the files of a level: each file is the pair   *)
(* of its smallest and largest key; index counts from 0                    *)
(***************************************************************************)
FileMeta(smallest, largest) == [smallest |-> smallest, largest |-> largest]

\* the files whose largest keys are the keys of L: each starts right after
\* the file before it (tight) or holds its largest key alone
LevelFiles(L, tight) ==
  [i \in 1 .. Cardinality(L) |->
     LET largest == CHOOSE k \in L : Cardinality({x \in L : x < k}) = i - 1
         before == MaxOf({x \in L : x < largest})
     IN FileMeta(IF tight THEN before + 1 ELSE largest, largest)]

\* sort.Search(n, f) with f(i) = icmp.Compare(ikey, files[i].Largest) < 0
RECURSIVE Search(_, _, _, _)
Search(i, j, files, ikey) ==
  IF i < j
    THEN LET h == (i + j) \div 2
         IN IF ~(ikey < files[h + 1].largest) THEN Search(h + 1, j, files, ikey)
            ELSE Search(i, h, files, ikey)
  ELSE i

FileValid(f) == f.index >= 0 /\ f.index < Len(f.files)

newFileIterator(files) ==
  [open |-> FALSE, index |-> 0, files |-> files, op |-> "new", ikey |-> 0,
   ret |-> FALSE]

NoFileIterator == newFileIterator(<<>>)

FileCalled(f, op, ikey, ret) == [f EXCEPT !.op = op, !.ikey = ikey, !.ret = ret]

FileFirst ==
  /\ fi.files # <<>>
  /\ fi' = FileCalled([fi EXCEPT !.open = TRUE, !.index = 0], "First", 0, TRUE)
  /\ UNCHANGED <<dbvars, it, tw>>

FileLast ==
  /\ fi.files # <<>>
  /\ fi' = FileCalled([fi EXCEPT !.open = TRUE, !.index = Len(fi.files) - 1],
                      "Last", 0, TRUE)
  /\ UNCHANGED <<dbvars, it, tw>>

FileNext ==
  /\ fi.files # <<>>
  /\ fi.index < Len(fi.files)
  /\ LET f == IF ~fi.open THEN [fi EXCEPT !.open = TRUE, !.index = 0]
              ELSE [fi EXCEPT !.index = @ + 1]
     IN fi' = FileCalled(f, "Next", 0, ~fi.open \/ FileValid(f))
  /\ UNCHANGED <<dbvars, it, tw>>

FilePrev ==
  /\ fi.files # <<>>
  /\ fi.index >= 0
  /\ LET f == IF ~fi.open THEN [fi EXCEPT !.open = TRUE, !.index = Len(fi.files) - 1]
              ELSE [fi EXCEPT !.index = @ - 1]
     IN fi' = FileCalled(f, "Prev", 0, ~fi.open \/ FileValid(f))
  /\ UNCHANGED <<dbvars, it, tw>>

FileSeek ==
  /\ fi.files # <<>>
  /\ \E ikey \in 1 .. Eof :
       LET f == [fi EXCEPT !.open = TRUE,
                           !.index = Search(0, Len(fi.files), fi.files, ikey)]
       IN fi' = FileCalled(f, "Seek", ikey, FileValid(f))
  /\ UNCHANGED <<dbvars, it, tw>>

(***************************************************************************)
(* Initial states: a database just created by createDB, or one recovered   *)
(* by recoverDB from a manifest with level-0 tables and one log            *)
(***************************************************************************)
DB0 == [mem |-> 1, imm |-> 0, memtab |-> <<{}>>,
        closing |-> FALSE, closed |-> FALSE, bgClosing |-> FALSE, bgGroup |-> 0,
        locker |-> TRUE, log |-> TRUE, logErr |-> "nil", logNumber |-> 2,
        nextLogFile |-> <<>>, nextLogNumber |-> 0,
        collectionFiles |-> FALSE, compactionLevel |-> -1,
        compactionMemory |-> FALSE, collectionDone |-> 0, closedChans |-> {},
        compactionErr |-> "nil", compactionResultc |-> <<>>,
        lastSequence |-> 0, nextFileNumber |-> 3, stLogNumber |-> 0,
        current |-> [l0 |-> {}, ln |-> {}],
        manifest |-> [l0 |-> {}, ln |-> {}, logNumber |-> 0],
        jobs |-> {}, nextJob |-> 1, picks |-> 0, snapshots |-> << >>]

\* recoverDB of a database whose manifest names n level-0 tables (the first
\* holds item 1) and the log n+2, which holds items 2..k+1
Recovered(k, n) ==
  [DB0 EXCEPT !.memtab = <<2 .. (k + 1)>>,
              !.logNumber = n + 2, !.stLogNumber = n + 2,
              !.nextFileNumber = n + 3,
              !.lastSequence = k + 1,
              !.current = [l0 |-> 2 .. (n + 1), ln |-> {}],
              !.manifest = [l0 |-> 2 .. (n + 1), ln |-> {}, logNumber |-> n + 2]]

RecoveredFiles(k, n) ==
  [logs |-> (n + 2) :> (2 .. (k + 1)),
   tables |-> [t \in 2 .. (n + 1) |-> IF t = 2 THEN {1} ELSE {}],
   synced |-> 2 .. (k + 1)]

Hist0 == [acked |-> {}, ranges |-> <<>>, wrange |-> [w \in Writers |-> {}],
          appended |-> {}, applied |-> {}, failed |-> {},
          sentinels |-> 0, bgClosings |-> 0, unlocks |-> 0, logCloses |-> 0,
          staleApply |-> FALSE, late |-> {}, lateSent |-> {}, created |-> FALSE]

Rd0 == [pc |-> "idle", seq |-> 0, ver |-> [l0 |-> {}, ln |-> {}], mem |-> 0,
        imm |-> 0, res |-> 0, acked |-> 0]

\* The environment of one run: how the database was opened, the callers (a
\* reader or closers, and the writers), whether I/O failures are injected and
\* whether seek-triggered compactions come due.
Scenario(boot, l0, reader, closers, writers, faulty, seeks) ==
  [boot |-> boot, l0 |-> l0, reader |-> reader, closers |-> closers,
   writers |-> writers, faulty |-> faulty, seeks |-> seeks,
   snapshots |-> FALSE]

Scenarios ==
  { Scenario("create", 0, TRUE, {}, Writers, TRUE, FALSE),
    Scenario("recover", 1, TRUE, {}, {"w2"}, FALSE, FALSE),
    Scenario("recover", 1, FALSE, {}, {"w2"}, FALSE, TRUE),
    Scenario("recover", 1, FALSE, {"c1"}, Writers, FALSE, FALSE),
    Scenario("create", 0, FALSE, Closers, {"w2"}, TRUE, FALSE),
    Scenario("recover", L0SlowdownFiles, FALSE, {}, Writers, FALSE, FALSE),
    [Scenario("create", 0, FALSE, {}, {"w2"}, FALSE, FALSE)
       EXCEPT !.snapshots = TRUE],
    Scenario("recover", L0StopWritesFiles - 1, FALSE, {}, {"w2"}, FALSE, FALSE) }

InitScenario(c) ==
  /\ requestc = <<>>
  /\ sv = [pc |-> "throttle", closing |-> FALSE, writes |-> <<>>, pending |-> <<>>,
           slowdown |-> FALSE, pause |-> FALSE, batchSeq |-> 0]
  /\ drainer = FALSE
  /\ wpc = [w \in Writers |-> IF w \in c.writers THEN "idle" ELSE "off"]
  /\ replyc = [w \in Writers |-> <<>>]
  /\ closeReply = [x \in Closers |-> FALSE]
  /\ clpc = [x \in Closers |-> IF x \in c.closers THEN "idle" ELSE "off"]
  /\ rd = [Rd0 EXCEPT !.pc = IF c.reader THEN "idle"
                            ELSE IF c.snapshots THEN "snap" ELSE "off"]
  /\ faults = IF c.faulty THEN 0 ELSE MaxFaults
  /\ IF c.boot = "create"
       THEN /\ db = [DB0 EXCEPT !.picks = IF c.seeks THEN 0 ELSE MaxPicks]
            /\ fs = [logs |-> (2 :> {}), tables |-> <<>>, synced |-> {}]
            /\ opener = "done"
            /\ hist = [Hist0 EXCEPT !.created = TRUE]
     ELSE \E k \in 1..MaxRecovered :
            /\ db = [Recovered(k, c.l0) EXCEPT
                       !.picks = IF c.seeks THEN 0 ELSE MaxPicks]
            /\ fs = RecoveredFiles(k, c.l0)
            /\ opener = "start"
            /\ hist = [Hist0 EXCEPT !.acked = 1 .. (k + 1),
                                    !.appended = 1 .. (k + 1),
                                    !.applied = 1 .. (k + 1)]

Init ==
  /\ it = NoIterator /\ tw = NoWriter /\ fi = NoFileIterator
  /\ \E c \in Scenarios : InitScenario(c)

Next ==
  \/ Throttle \/ SelectClosed \/ SelectNextLogFile
  \/ SelectCollectionDone \/ SelectCompactionResult \/ SelectSlowdown
  \/ SelectSentinel \/ SelectRequest \/ drainRequests
  \/ WbgStart \/ WbgLog \/ WbgLogWriteFails \/ WbgLogSyncFails \/ WbgLogNil
  \/ WbgLogClosedFile \/ WbgApply
  \/ Compact \/ CompactFails \/ LogManifest \/ LogManifestFails
  \/ RetryCompaction \/ AbortCompaction
  \/ removeObsoleteFiles
  \/ openNextLog \/ openNextLogFails \/ openNextLogRetry \/ openNextLogAbort
  \/ OpenTryStartBackground
  \/ \E w \in Writers : WriteBegin(w) \/ WriteSend(w)
  \/ \E c \in Closers :
       \/ CloseBegin(c) \/ CloseWaitClosed(c) \/ CloseSentinel(c)
       \/ CloseSignal(c) \/ CloseWait(c) \/ CloseFinish(c)
  \/ GetBegin \/ GetSearch
  \/ NewSnapshotBegin \/ NewSnapshotPush \/ releaseSnapshot

Spec == Init /\ [][Next]_vars

\* the least number of items in the memtable that pauses writes
PauseItems == (WriteBufferSize + WriteBufferSize \div 4) \div ItemBytes + 1

\* Open, Write and Close alone, on a recovered database whose last log holds
\* enough items to pause writes and in whose directory no log file can be
\* opened
InitClose ==
  /\ it = NoIterator /\ tw = NoWriter /\ fi = NoFileIterator
  /\ requestc = <<>>
  /\ sv = [pc |-> "throttle", closing |-> FALSE, writes |-> <<>>, pending |-> <<>>,
           slowdown |-> FALSE, pause |-> FALSE, batchSeq |-> 0]
  /\ drainer = FALSE
  /\ wpc = [w \in Writers |-> "idle"]
  /\ replyc = [w \in Writers |-> <<>>]
  /\ closeReply = [x \in Closers |-> FALSE]
  /\ clpc = [x \in Closers |-> "idle"]
  /\ rd = [Rd0 EXCEPT !.pc = "off"]
  /\ opener = "start"
  /\ faults = -1
  /\ db = [Recovered(PauseItems, 1) EXCEPT !.picks = MaxPicks]
  /\ fs = RecoveredFiles(PauseItems, 1)
  /\ hist = [Hist0 EXCEPT !.acked = 1 .. (PauseItems + 1),
                          !.appended = 1 .. (PauseItems + 1),
                          !.applied = 1 .. (PauseItems + 1)]

\* the steps of Next in a directory where no log file can be opened: the Open
\* of openNextLog never succeeds, so no memtable is frozen and no compaction
\* starts
NextClose ==
  \/ Throttle \/ SelectClosed \/ SelectNextLogFile \/ SelectCollectionDone
  \/ SelectSentinel \/ SelectRequest \/ drainRequests
  \/ WbgStart \/ WbgLog \/ WbgLogWriteFails \/ WbgLogSyncFails \/ WbgApply
  \/ removeObsoleteFiles
  \/ openNextLogFails \/ openNextLogRetry \/ openNextLogAbort
  \/ OpenTryStartBackground
  \/ \E w \in Writers : WriteBegin(w) \/ WriteSend(w)
  \/ \E c \in Closers :
       \/ CloseBegin(c) \/ CloseWaitClosed(c) \/ CloseSentinel(c)
       \/ CloseSignal(c) \/ CloseWait(c) \/ CloseFinish(c)

\* Every goroutine that can take a step takes one, every I/O operation
\* returns, with or without an error, and a select takes each case that is
\* ready again and again; no caller has to call.
FairClose ==
  /\ WF_vars(Throttle) /\ WF_vars(drainRequests) /\ WF_vars(WbgStart)
  /\ WF_vars(WbgLog \/ WbgLogWriteFails \/ WbgLogSyncFails) /\ WF_vars(WbgApply)
  /\ WF_vars(removeObsoleteFiles) /\ WF_vars(openNextLog \/ openNextLogFails)
  /\ WF_vars(OpenTryStartBackground)
  /\ SF_vars(SelectClosed) /\ SF_vars(SelectNextLogFile)
  /\ SF_vars(SelectCollectionDone)
  /\ SF_vars(SelectSentinel) /\ SF_vars(SelectRequest)
  /\ SF_vars(openNextLogRetry) /\ SF_vars(openNextLogAbort)
  /\ \A w \in Writers : WF_vars(WriteSend(w))
  /\ \A c \in Closers :
       /\ WF_vars(CloseWaitClosed(c)) /\ WF_vars(CloseSentinel(c))
       /\ WF_vars(CloseSignal(c)) /\ WF_vars(CloseWait(c)) /\ WF_vars(CloseFinish(c))

SpecClose == InitClose /\ [][NextClose]_vars /\ FairClose

\* the background goroutines alone, with a device that fails without limit:
\* a recovered database whose memtable is over the write buffer, no caller
InitRetry ==
  /\ it = NoIterator /\ tw = NoWriter /\ fi = NoFileIterator
  /\ requestc = <<>>
  /\ sv = [pc |-> "throttle", closing |-> FALSE, writes |-> <<>>, pending |-> <<>>,
           slowdown |-> FALSE, pause |-> FALSE, batchSeq |-> 0]
  /\ drainer = FALSE
  /\ wpc = [w \in Writers |-> "off"]
  /\ replyc = [w \in Writers |-> <<>>]
  /\ closeReply = [x \in Closers |-> FALSE]
  /\ clpc = [x \in Closers |-> "off"]
  /\ rd = [Rd0 EXCEPT !.pc = "off"]
  /\ opener = "start"
  /\ faults = -1
  /\ db = [Recovered(PauseItems, 1) EXCEPT !.picks = MaxPicks]
  /\ fs = RecoveredFiles(PauseItems, 1)
  /\ hist = [Hist0 EXCEPT !.acked = 1 .. (PauseItems + 1),
                          !.appended = 1 .. (PauseItems + 1),
                          !.applied = 1 .. (PauseItems + 1)]

NextRetry ==
  \/ Throttle \/ SelectNextLogFile \/ SelectCollectionDone \/ SelectCompactionResult
  \/ Compact \/ CompactFails \/ LogManifest \/ LogManifestFails \/ RetryCompaction
  \/ removeObsoleteFiles
  \/ openNextLog \/ openNextLogFails \/ openNextLogRetry
  \/ OpenTryStartBackground

SpecRetry == InitRetry /\ [][NextRetry]_vars

\* a table.Writer alone, with or without a filter policy
InitTable ==
  /\ InitScenario(Scenario("create", 0, FALSE, {}, {}, FALSE, FALSE))
  /\ it = NoIterator /\ fi = NoFileIterator
  /\ \E filter \in BOOLEAN : tw = NewWriter(filter)

NextTable == TableAdd \/ TableFinish

SpecTable == InitTable /\ [][NextTable]_vars

\* a fileIterator alone, over every sorted list of files with disjoint ranges
InitFile ==
  /\ InitScenario(Scenario("create", 0, FALSE, {}, {}, FALSE, FALSE))
  /\ it = NoIterator /\ tw = NoWriter
  /\ \E L \in SUBSET (1 .. MaxKey) \ {{}}, tight \in BOOLEAN :
       fi = newFileIterator(LevelFiles(L, tight))

NextFile == FileFirst \/ FileLast \/ FileNext \/ FilePrev \/ FileSeek

SpecFile == InitFile /\ [][NextFile]_vars

\* a range iterator alone, over every key set and every pair of bounds
InitRange ==
  /\ InitScenario(Scenario("create", 0, FALSE, {}, {}, FALSE, FALSE))
  /\ tw = NoWriter /\ fi = NoFileIterator
  /\ \E ks \in SUBSET (1 .. MaxKey), start \in 1 .. MaxKey, limit \in 2 .. Eof :
       start < limit /\ it = NewRangeIterator(ks, start, limit)

NextRange == CallFirst \/ CallLast \/ CallNext \/ CallPrev \/ CallSeek

SpecRange == InitRange /\ [][NextRange]_vars

\* a start iterator alone, over every key set and every start
InitStart ==
  /\ InitScenario(Scenario("create", 0, FALSE, {}, {}, FALSE, FALSE))
  /\ tw = NoWriter /\ fi = NoFileIterator
  /\ \E ks \in SUBSET (1 .. MaxKey), start \in 1 .. MaxKey :
       it = NewStartIterator(ks, start)

NextStart ==
  StartCallFirst \/ StartCallLast \/ StartCallNext \/ StartCallPrev
  \/ StartCallSeek

SpecStart == InitStart /\ [][NextStart]_vars

\* a scan of an iterator with both bounds, over every key set and bounds
InitScan ==
  /\ InitScenario(Scenario("create", 0, FALSE, {}, {}, FALSE, FALSE))
  /\ tw = NoWriter /\ fi = NoFileIterator
  /\ \E ks \in SUBSET (1 .. MaxKey), start \in 1 .. MaxKey, limit \in 1 .. Eof :
       it = NewBoundedIterator(ks, start, limit)

NextScan == ScanFirst \/ ScanNext \/ ScanLast \/ ScanPrev

SpecScan == InitScan /\ [][NextScan]_vars

\* A directory that Open is to recover: the manifest names n level-0 tables
\* (the first holds item 1) and the log n+2; some of the tables are in the
\* directory; of the logs n+2, n+3 and n+4 the first `logs` are there, the
\* first two with k items each and the third, opened ahead, with none.
Unrecovered(n) ==
  [DB0 EXCEPT !.log = FALSE, !.logNumber = 0, !.stLogNumber = n + 2,
              !.nextFileNumber = n + 3,
              !.lastSequence = IF n = 0 THEN 0 ELSE 1,
              !.current = [l0 |-> 2 .. (n + 1), ln |-> {}],
              !.manifest = [l0 |-> 2 .. (n + 1), ln |-> {}, logNumber |-> n + 2],
              !.picks = MaxPicks]

Directory(n, present, logs, k) ==
  LET base == IF n = 0 THEN 0 ELSE 1
      items(i) == IF i = 2 THEN {} ELSE (base + i * k + 1) .. (base + (i + 1) * k)
  IN [logs |-> [l \in (n + 2) .. (n + 1 + logs) |-> items(l - (n + 2))],
      tables |-> [t \in present |-> IF t = 2 THEN {1} ELSE {}],
      synced |-> UNION {items(i) : i \in 0 .. (logs - 1)}]

InitRecover ==
  /\ it = NoIterator /\ tw = NoWriter /\ fi = NoFileIterator
  /\ requestc = <<>>
  /\ sv = [pc |-> "throttle", closing |-> FALSE, writes |-> <<>>, pending |-> <<>>,
           slowdown |-> FALSE, pause |-> FALSE, batchSeq |-> 0]
  /\ drainer = FALSE
  /\ wpc = [w \in Writers |-> "off"]
  /\ replyc = [w \in Writers |-> <<>>]
  /\ closeReply = [x \in Closers |-> FALSE]
  /\ clpc = [x \in Closers |-> "off"]
  /\ rd = [Rd0 EXCEPT !.pc = "off"]
  /\ faults = MaxFaults
  /\ hist = Hist0
  /\ \E n \in 0 .. MaxListed, logs \in 0 .. 3, k \in 1 .. MaxRecovered :
       \E present \in SUBSET (2 .. (n + 1)) :
         /\ db = Unrecovered(n)
         /\ fs = Directory(n, present, logs, k)
         /\ opener = "recover"

NextRecover == RecoverDB

SpecRecover == InitRecover /\ [][NextRecover]_vars

(***************************************************************************)
(* Properties                                                              *)
(***************************************************************************)
ManifestTables == db.manifest.l0 \cup db.manifest.ln

\* C1: a Get that starts after a write was acknowledged returns that write
\* (or a later one), whatever rotation, flush completion or level compaction
\* runs between its reads of the version and of the memtables.
GetSeesAckedWrite ==
  (rd.pc = "done" /\ rd.res # -1) => rd.res >= rd.acked

\* C2: a reader that holds the snapshot sequence S finds every sequence up
\* to S already applied to a memtable (the sequences of a group whose log
\* write failed are no writes): last_sequence is not observable before the
\* group that owns it is in the memtable.
SnapshotSeesAppliedGroups ==
  rd.pc = "mems" => \A q \in 1 .. rd.seq : q \in hist.applied \cup hist.failed

\* C3: a Write that got the reply nil had its batch given a sequence range,
\* appended to the log, synced when it asked for sync, and applied to the
\* memtable.
NilReplyMeansLoggedAndApplied ==
  \A w \in Writers :
    (replyc[w] # <<>> /\ Head(replyc[w]) = "nil") =>
      /\ hist.wrange[w] # {}
      /\ hist.wrange[w] \subseteq (hist.appended \cap hist.applied)
      /\ SyncOf(w) => hist.wrange[w] \subseteq fs.synced

\* C4: at every state every acknowledged write is recoverable by Open: it is
\* in a table the manifest names, or in an existing log file whose number is
\* at least the manifest's log number.
AckedWritesRecoverable ==
  \A q \in hist.acked :
    \/ q \in TableData(fs.tables, ManifestTables)
    \/ \E n \in DOMAIN fs.logs : n >= db.manifest.logNumber /\ q \in fs.logs[n]

CloseReturnsAfterWorkers ==
  db.closed => db.jobs = {} /\ db.bgGroup = 0

\* C7: every Write gets at most one reply, and one reply once nothing can
\* run any more; a Write that begins after Close set closing returns
\* ErrDBClosed, and a request queued after the sentinel is answered
\* ErrDBClosed and is given no sequence, so neither logged nor applied.
EveryWriteAnsweredOnce ==
  \A w \in Writers :
    /\ Len(replyc[w]) <= 1
    /\ w \in hist.late => wpc[w] = "closed"
    /\ w \in hist.lateSent =>
         /\ hist.wrange[w] = {}
         /\ replyc[w] # <<>> => Head(replyc[w]) = "closed"
    /\ (wpc[w] \in {"send", "wait"} /\ ~ENABLED Next) => WriteResult(w) # "none"

\* C8: from a failed log append or sync until Close is called, the log
\* stays closed with its error, so every write is refused.
LogErrorSticky ==
  (hist.failed # {} /\ ~db.closing) => (~db.log /\ db.logErr = "err")

\* C9: Close is idempotent: the sentinel, the close of bgClosing, the lock
\* release and the log close each happen at most once, and a Close call has
\* returned only when all four have happened and db.closed is closed.
CloseIdempotent ==
  /\ hist.sentinels <= 1 /\ hist.bgClosings <= 1
  /\ hist.unlocks <= 1 /\ hist.logCloses <= 1
  /\ \A c \in Closers :
       clpc[c] = "done" =>
         /\ db.closed
         /\ hist.sentinels = 1 /\ hist.bgClosings = 1
         /\ hist.unlocks = 1 /\ hist.logCloses = 1

\* both Close calls have returned
BothClosersReturned == \A c \in Closers : clpc[c] = "done"

\* C10: a valid range iterator stands on a key K of the table with
\* start <= K < limit; Seek to a target at or above the limit leaves it
\* invalid; Seek to a target below start leaves it where First does.
RangeWithinBounds ==
  /\ it.valid => it.pos \in it.keys /\ it.start <= it.pos /\ it.pos < it.limit
  /\ (it.op = "Seek" /\ it.target >= it.limit) => ~it.valid
  /\ (it.op = "Seek" /\ it.target < it.start) =>
       LET f == RangeFirst(it, it.fail)
       IN it.valid = f.valid /\ it.pos = f.pos

\* a Seek below start found a key, and keys of the table lie outside the bounds
SeekBelowStartFound ==
  /\ it.op = "Seek" /\ it.target < it.start /\ it.valid
  /\ \E k \in it.keys : k < it.start
  /\ \E k \in it.keys : k >= it.limit

\* C11: a valid start iterator stands on a key K of the table with
\* K >= start, after any calls, a Next after Prev calls that stepped below
\* start included.
StartWithinBound ==
  it.valid => it.pos \in it.keys /\ it.pos >= it.start

\* C12: First then repeated Next yields exactly the keys K of the table with
\* start <= K < limit, each once and ascending; Last then repeated Prev
\* yields the same keys descending; with start >= limit nothing is yielded;
\* a scan begun with Next or Prev goes as one begun with First or Last.
ScanYieldsRange ==
  it.dir # "none" =>
    LET expected == {k \in it.keys : it.start <= k /\ k < it.limit}
        yielded == {it.seen[i] : i \in 1 .. Len(it.seen)}
    IN /\ yielded \subseteq expected
       /\ \A i, j \in 1 .. Len(it.seen) :
            i < j => IF it.dir = "fwd" THEN it.seen[i] < it.seen[j]
                     ELSE it.seen[i] > it.seen[j]
       /\ \A k \in expected :
            \/ k \in yielded
            \/ /\ ~it.done
               /\ \A s \in yielded : IF it.dir = "fwd" THEN s < k ELSE s > k

\* a backward scan begun with Prev has ended after two keys or more, over a
\* table that holds the start, a key below it and a key at or past the limit
ScanBackwardDone ==
  /\ it.dir = "bwd" /\ it.done /\ it.op = "Prev" /\ Len(it.seen) >= 2
  /\ it.start \in it.keys
  /\ \E k \in it.keys : k < it.start
  /\ \E k \in it.keys : k >= it.limit
\* C13: the smallest-snapshot sequence a running compaction was handed is at
\* most the sequence of the snapshot that is held or being created (a
\* compaction started before the snapshot read its sequence was handed at
\* most the last sequence of then, which never decreases).
SmallestSnapshotBelowSnapshots ==
  rd.pc \in {"snapRead", "snapHeld"} =>
    \A j \in db.jobs : IsCompaction(j) => j.smallest <= rd.seq
\* C14: Open of an existing database returns no handle whose current
\* version names a table that is not in the directory.
OpenFailsOnMissingTable ==
  opener = "start" => Tables(db.current) \subseteq DOMAIN fs.tables
\* C15: a collection of obsolete files never runs together with a flush or a
\* level compaction, and at most one flush, one level compaction and one
\* collection run at a time.
BackgroundWorkExclusive ==
  LET running(kind) == {j \in db.jobs : j.kind = kind}
  IN /\ Cardinality(running("mem")) <= 1
     /\ Cardinality(running("lvl")) <= 1
     /\ Cardinality(running("col")) <= 1
     /\ running("col") # {} => running("mem") = {} /\ running("lvl") = {}
\* C16: every edit applied to the state was logged to the manifest before:
\* each table of the current version is a table of the manifest, or an input
\* of a logged edit that waits in the result channel to be applied.
AppliedEditsWereLogged ==
  Tables(db.current) \subseteq
    ManifestTables \cup UNION {db.compactionResultc[i].edit.deleted :
                                i \in 1 .. Len(db.compactionResultc)}
\* C17: a step of the collection removes no log numbered at or above the
\* state's log number, not the active log, not a log opened ahead, no table
\* of a live version, and no output table of a compaction whose edit is not
\* yet applied.
CollectionSparesLiveFiles ==
  [][removeObsoleteFiles =>
       LET removedLogs == DOMAIN fs.logs \ DOMAIN fs'.logs
           removedTables == DOMAIN fs.tables \ DOMAIN fs'.tables
           ahead == {db.nextLogFile[i] : i \in 1 .. Len(db.nextLogFile)}
           outputs == {j.out : j \in {x \in db.jobs : IsCompaction(x) /\ x.compacted}}
           unapplied == UNION {db.compactionResultc[i].edit.add0
                                 \cup db.compactionResultc[i].edit.addN :
                               i \in 1 .. Len(db.compactionResultc)}
       IN /\ \A n \in removedLogs :
               n < db.stLogNumber /\ ~(db.log /\ n = db.logNumber) /\ n \notin ahead
          /\ removedTables \cap (LiveTables \cup outputs \cup unapplied) = {}]_vars
\* C18: a step that installs an immutable memtable starts with none; a step
\* that clears it applies the edit of a successful flush and leaves its items
\* in the tables of the current version; and at most one opening of a next
\* log is in flight.
ImmNeverLost ==
  [][/\ (db'.imm # db.imm /\ db'.imm # 0) => db.imm = 0
     /\ (db.imm # 0 /\ db'.imm = 0) =>
          /\ db.compactionResultc # << >>
          /\ Head(db.compactionResultc).level = -1
          /\ Head(db.compactionResultc).err = "nil"
          /\ db.memtab[db.imm] \subseteq TableData(fs'.tables, Tables(db'.current))
     /\ Cardinality({j \in db'.jobs : j.kind = "nlog"}) + Len(db'.nextLogFile)
          <= NextLogCap]_vars
\* C19: while the database is not closing, the coordinator is about to log
\* a write group only in states where the memtable holds less than 1.25
\* times the write buffer and level 0 holds fewer than L0StopWritesFiles
\* tables.
NoLogWhenOverloaded ==
  (Alive /\ sv.pc = "wbg_log" /\ db.log /\ ~sv.closing /\ ~db.closing) =>
    /\ 4 * ItemBytes * Cardinality(db.memtab[db.mem]) < 5 * WriteBufferSize
    /\ Cardinality(db.current.l0) < L0StopWritesFiles

\* C20: level 0 of the current version never holds more than
\* L0StopWritesFiles tables.
Level0Bounded ==
  Cardinality(db.current.l0) <= L0StopWritesFiles
\* C21: a compaction whose Compact or Log step fails sends a result with the
\* error and stays; a compaction ends only by sending one result, the edit
\* it has logged or an abort after Close's signal with its output table
\* removed; a result with an error and no abort changes neither the running
\* flags nor bgGroup nor the version, an aborted one leaves the version, and
\* a running flag is cleared only by a result that ends a compaction.
CompactionRetriesUntilTerminal ==
  [][LET ids(s) == {j.id : j \in s.jobs}
         gone == {j \in db.jobs : IsCompaction(j) /\ j.id \notin ids(db')}
         failed == {j \in db.jobs : /\ IsCompaction(j) /\ j.pc # "retry"
                                     /\ \E k \in db'.jobs : k.id = j.id /\ k.pc = "retry"}
         started == {j \in db'.jobs : j.id \notin ids(db)}
         q == db.compactionResultc
         sent == IF Len(db'.compactionResultc) > Len(q)
                   THEN {db'.compactionResultc[Len(db'.compactionResultc)]} ELSE {}
         taken == IF Len(db'.compactionResultc) < Len(q) THEN {Head(q)} ELSE {}
         terminal(r) == r.err = "nil" \/ r.aborted
     IN /\ \A j \in failed : sent = {Result(j.level, "err", NoEdit, FALSE)}
        /\ \A j \in gone :
             \E r \in sent :
               /\ r.level = j.level /\ terminal(r)
               /\ IF r.aborted
                    THEN db.bgClosing /\ r.err # "nil"
                         /\ (j.compacted => j.out \notin DOMAIN fs'.tables)
                  ELSE r.edit = j.edit /\ j.compacted
                       /\ r.edit.add0 \cup r.edit.addN \subseteq
                            db'.manifest.l0 \cup db'.manifest.ln
        /\ \A r \in sent : terminal(r) => gone # {}
        /\ \A r \in taken :
             /\ db'.bgGroup = db.bgGroup - (IF terminal(r) THEN 1 ELSE 0)
                                + Cardinality(started)
             /\ ~terminal(r) => /\ db'.compactionMemory = db.compactionMemory
                                /\ db'.compactionLevel = db.compactionLevel
                                /\ db'.compactionErr = r.err
             /\ r.err # "nil" => db'.current = db.current /\ db'.imm = db.imm
        /\ (db.compactionMemory /\ ~db'.compactionMemory) =>
             \E r \in taken : terminal(r) /\ r.level = -1
        /\ (db.compactionLevel >= 0 /\ db'.compactionLevel # db.compactionLevel) =>
             \E r \in taken : terminal(r) /\ r.level = db.compactionLevel]_vars

\* the coordinator has taken the report of a failed attempt, and the
\* compaction, told to stop, has sent its abort
AbortSentAfterReportedFailure ==
  /\ db.compactionErr = "err"
  /\ \E i \in 1 .. Len(db.compactionResultc) : db.compactionResultc[i].aborted
\* C22: a Close that has been called returns: every closer that has begun
\* its call reaches the end of it, whatever the serving goroutine and the
\* background goroutines are doing, when every goroutine is scheduled and
\* every file operation returns.
CloseEventuallyReturns ==
  \A c \in Closers : (clpc[c] \notin {"off", "idle", "done"}) ~> (clpc[c] = "done")

\* C23: when the manifest-log step of a compaction fails, the wait before
\* the next attempt is one second after the first failure of the step and
\* one and a half times the previous wait after each later one.
BackoffGrowsByHalf ==
  [][\A j \in db.jobs : \A k \in db'.jobs :
       (k.id = j.id /\ IsCompaction(j) /\ j.pc = "log" /\ k.pc = "retry")
         => k.timeout = (IF j.timeout = 0 THEN Second
                         ELSE j.timeout + j.timeout \div 2)]_vars

\* C24: on a database that was created, whenever serve is not in the middle
\* of writing a group, the last sequence is the number of items of the groups
\* that were answered nil: a group that is rejected, or whose log append
\* fails, takes no sequence number.
LastSequenceCountsAckedItems ==
  (hist.created /\ sv.pc \notin {"wbg_log", "wbg_apply"})
    => db.lastSequence = Cardinality(hist.acked)

\* C25: while no write has failed, the data-index block (as it is kept, or as
\* it was written by Finish) holds one entry for every data block written,
\* in the order of the blocks and with the handle of its block, but for the
\* last block while its handle is pending; the key of an entry is not below
\* the last key of its block and is below the first key that follows; an Add
\* that has flushed a block leaves its handle pending; a handle is pending only
\* while the data block is empty, and none is after the index was written.
IndexEntriesFollowBlocks ==
  LET IsData(b) == b.kind = "data"
      IsIndex(b) == b.kind = "index"
      data == SelectSeq(tw.file, IsData)
      written == SelectSeq(tw.file, IsIndex)
      index == IF written # <<>> THEN written[1].entries ELSE tw.dataIndexBlock
      pending == IF tw.pending.length # 0 THEN 1 ELSE 0
      next(i) == IF i < Len(data) THEN data[i + 1].entries[1]
                 ELSE IF tw.dataBlock # <<>> THEN tw.dataBlock[1]
                 ELSE Eof
  IN ~tw.err =>
       /\ Len(written) <= 1
       /\ Len(index) + pending = Len(data)
       /\ \A i \in 1 .. Len(index) :
            /\ index[i].handle = data[i].handle
            /\ index[i].key >= data[i].entries[Len(data[i].entries)]
            /\ index[i].key < next(i)
       /\ pending = 1 => tw.pending = data[Len(data)].handle /\ tw.dataBlock = <<>>
       /\ (tw.op = "Add" /\ tw.dataBlock = <<>>) => pending = 1
       /\ written # <<>> => pending = 0

\* a table of three entries is finished: the second block was flushed by
\* Finish, which also added its index entry
FinishFlushedLastBlock ==
  /\ tw.finished /\ tw.numEntries = BlockEntries + 1
  /\ \E i \in 1 .. Len(tw.file) :
       tw.file[i].kind = "index" /\ Len(tw.file[i].entries) = 2

\* C26: a call in which a write fails, and every call after it, returns an
\* error; once a write has failed no call writes to the file; a Finish that
\* returns nil has written the last data block, the filter and meta-index
\* blocks, the data-index block and the footer.
WriteFailureIsReported ==
  [][/\ tw'.broken => tw'.ret = "err"
     /\ tw.broken => tw'.file = tw.file
     /\ (tw'.op = "Finish" /\ tw'.ret = "nil") => tw'.finished]_vars

\* C27: after Seek(ikey) the iterator is on the first file whose largest key
\* is at or above ikey, and is invalid when there is no such file.
SeekFindsFirstFileAtOrAbove ==
  fi.op = "Seek" =>
    LET n == Len(fi.files)
        at == {i \in 1 .. n : fi.files[i].largest >= fi.ikey}
        first == IF at = {} THEN n + 1 ELSE CHOOSE i \in at : \A j \in at : i <= j
    IN fi.index = first - 1 /\ fi.ret = (first <= n)

====
